---- MODULE Spec2Model ----
(***************************************************************************)
(* Model of api/voice.js: a serverless HTTP handler that proxies a         *)
(* text-to-speech request either to an RVC voice-cloning server or to the  *)
(* Gemini TTS endpoint and relays the audio (or an error) to the caller.   *)
(*                                                                         *)
(* Strings and buffers are sequences of one-character strings (ASCII       *)
(* only, so that a byte and its character coincide).  One invocation of    *)
(* the handler is split into actions at its await points.                  *)
(***************************************************************************)
EXTENDS Integers, Sequences, FiniteSets, TLC

(***************************************************************************)
(* Bounds of the model                                                     *)
(***************************************************************************)
\* how far the longest upstream / error text exceeds the longest truncation
Excess == 1
\* length of the short texts ("boom"-like)
ShortLen == 4

(***************************************************************************)
(* String helpers (JavaScript String / Buffer primitives)                  *)
(***************************************************************************)
Min(a, b) == IF a < b THEN a ELSE b

UPPER == <<"A","B","C","D","E","F","G","H","I","J","K","L","M",
           "N","O","P","Q","R","S","T","U","V","W","X","Y","Z">>
LOWER == <<"a","b","c","d","e","f","g","h","i","j","k","l","m",
           "n","o","p","q","r","s","t","u","v","w","x","y","z">>

\* String.prototype.toLowerCase
toLowerCase(s) ==
    [i \in 1..Len(s) |->
        IF \E k \in 1..26 : UPPER[k] = s[i]
        THEN LOWER[CHOOSE k \in 1..26 : UPPER[k] = s[i]]
        ELSE s[i]]

\* String.prototype.includes
includes(s, sub) ==
    \E i \in 0..(Len(s) - Len(sub)) : SubSeq(s, i + 1, i + Len(sub)) = sub

\* String.prototype.substring(0, n)
substring(s, n) == SubSeq(s, 1, Min(n, Len(s)))

\* RVC_SERVER_URL.replace(/\/$/, '')
stripTrailingSlash(s) ==
    IF Len(s) > 0 /\ s[Len(s)] = "/" THEN SubSeq(s, 1, Len(s) - 1) ELSE s

\* a text of n characters; different seeds give different texts, and the
\* characters vary along the text so that prefixes of different lengths differ
Text(seed, n) == [i \in 1..n |-> LOWER[((i * seed + i \div 7) % 26) + 1]]

(***************************************************************************)
(* String constants of the handler                                         *)
(***************************************************************************)
CT_JSON == <<"a","p","p","l","i","c","a","t","i","o","n","/","j","s","o","n">>
CT_JSON_UPPER == <<"A","p","p","l","i","c","a","t","i","o","n","/","J","S","O","N">>
CT_JSON_CHARSET == <<"a","p","p","l","i","c","a","t","i","o","n","/","j","s","o","n",";"," ","c","h","a","r","s","e","t","=","u","t","f","-","8">>
CT_WAV == <<"a","u","d","i","o","/","w","a","v">>
CT_WAV_UPPER == <<"A","u","d","i","o","/","W","A","V">>
OCTET_STREAM == <<"a","p","p","l","i","c","a","t","i","o","n","/","o","c","t","e","t","-","s","t","r","e","a","m">>
SYNTHESIZE == <<"/","s","y","n","t","h","e","s","i","z","e">>
BEARER == <<"B","e","a","r","e","r"," ">>
DEFAULT_TTS_URL == <<"https://api.generativeai.googleapis.com/v1beta2/speech:generate">>

\* truncation lengths of the error details
RvcDetailsLen == 200
GeminiDetailsLen == 300
InternalDetailsLen == 300

(***************************************************************************)
(* JavaScript values of the parsed JSON body                               *)
(***************************************************************************)
Undefined == [t |-> "undefined", s |-> ""]
Null == [t |-> "null", s |-> ""]
Str(x) == [t |-> "string", s |-> x]
Num(x) == [t |-> "number", s |-> x]
Bool(x) == [t |-> "boolean", s |-> x]

\* variant: only undefined and null count as missing
TruthyLoose(v) == v.t \notin {"undefined", "null"}

\* ToBoolean: the falsy values are undefined, null, "", 0 and false
Truthy(v) ==
    ~ \/ v.t \in {"undefined", "null"}
      \/ v.t = "string" /\ v.s = ""
      \/ v.t = "number" /\ v.s = "0"
      \/ v.t = "boolean" /\ v.s = "false"

\* a destructuring default applies only to undefined
Default(v, d) == IF v.t = "undefined" THEN d ELSE v

\* inbound bodies
B_OBJ == <<"{","}">>
B_NULL == <<"n","u","l","l">>
B_BAD == <<"{">>
B_RIFF == <<"R","I","F","F">>
B_HI == <<"{","\"","t","e","x","t","\"",":","\"","h","i","\"","}">>
B_HI_NORMAL == <<"{","\"","t","e","x","t","\"",":","\"","h","i","\"",",","\"","m","o","d","e","\"",":","\"","n","o","r","m","a","l","\"","}">>
B_HI_CLONED == <<"{","\"","t","e","x","t","\"",":","\"","h","i","\"",",","\"","m","o","d","e","\"",":","\"","c","l","o","n","e","d","\"","}">>
B_EMPTYTEXT == <<"{","\"","t","e","x","t","\"",":","\"","\"","}">>
B_TEXTNULL == <<"{","\"","t","e","x","t","\"",":","n","u","l","l","}">>
B_TEXTZERO == <<"{","\"","t","e","x","t","\"",":","0","}">>
B_TEXTFALSE == <<"{","\"","t","e","x","t","\"",":","f","a","l","s","e","}">>
B_HI_TE == <<"{","\"","t","e","x","t","\"",":","\"","h","i","\"",",","\"","l","a","n","g","u","a","g","e","\"",":","\"","t","e","\"",",","\"","m","o","d","e","\"",":","n","u","l","l","}">>

Bodies == {<<>>, B_OBJ, B_NULL, B_BAD, B_RIFF, B_HI, B_HI_NORMAL, B_HI_CLONED,
           B_EMPTYTEXT, B_TEXTNULL, B_TEXTZERO, B_TEXTFALSE, B_HI_TE}

Obj(text, language, mode) ==
    [kind |-> "object", text |-> text, language |-> language, mode |-> mode]

\* JSON.parse on the bodies above; anything that is not JSON text throws
JSONParse(s) ==
    CASE s = B_OBJ -> Obj(Undefined, Undefined, Undefined)
      [] s = B_NULL -> [Obj(Undefined, Undefined, Undefined) EXCEPT !.kind = "null"]
      [] s = B_HI -> Obj(Str("hi"), Undefined, Undefined)
      [] s = B_HI_NORMAL -> Obj(Str("hi"), Undefined, Str("normal"))
      [] s = B_HI_CLONED -> Obj(Str("hi"), Undefined, Str("cloned"))
      [] s = B_EMPTYTEXT -> Obj(Str(""), Undefined, Undefined)
      [] s = B_TEXTNULL -> Obj(Null, Undefined, Undefined)
      [] s = B_TEXTZERO -> Obj(Num("0"), Undefined, Undefined)
      [] s = B_TEXTFALSE -> Obj(Bool("false"), Undefined, Undefined)
      [] s = B_HI_TE -> Obj(Str("hi"), Str("te"), Null)
      [] OTHER -> [Obj(Undefined, Undefined, Undefined) EXCEPT !.kind = "SyntaxError"]

\* String(err) of the errors the handler can catch
SyntaxErrorString == <<"S","y","n","t","a","x","E","r","r","o","r">>
TypeErrorString == <<"T","y","p","e","E","r","r","o","r">>
\* thrown by fetch, by a body read or by the inbound stream: a short message
\* and one longer than every truncation length
ErrorStrings == {Text(3, ShortLen), Text(5, InternalDetailsLen + Excess)}

\* bodies an upstream can answer with (audio bytes or an error text)
UpstreamBodies ==
    {<<>>, Text(1, ShortLen), Text(7, RvcDetailsLen + Excess),
     Text(11, GeminiDetailsLen + Excess)}

UpstreamStatuses == {200, 299, 300, 500}

(***************************************************************************)
(* State                                                                   *)
(***************************************************************************)
VARIABLES
    RVC_SERVER_URL,   \* module constant, read from the environment at load
    GEMINI_API_KEY,   \* module constant, read from the environment at load
    GEMINI_TTS_URL,   \* module constant, read from the environment at load
    pc,               \* where the running invocation is suspended
    req,              \* the inbound request of the running invocation
    readCalled,       \* readRawRequest(req) has been called
    rawBuffer,        \* the buffered inbound body
    branch,           \* which of the three fetch sites issued the call
    calls,            \* the outbound fetch calls of the invocation, in order
    r,                \* what the upstream did with the call
    res,              \* the responses sent on res, in order
    loaded,           \* history: the configuration as loaded at start
    prev              \* history: an earlier completed invocation

vars == <<RVC_SERVER_URL, GEMINI_API_KEY, GEMINI_TTS_URL, pc, req, readCalled,
          rawBuffer, branch, calls, r, res, loaded, prev>>
history == <<loaded, prev>>
config == <<RVC_SERVER_URL, GEMINI_API_KEY, GEMINI_TTS_URL>>

\* values the environment variables can have (<<>> is unset or empty)
EnvRvcUrls == {<<>>, <<"h">>, <<"h", "/">>}
EnvApiKeys == {<<>>, <<"k">>}
EnvTtsUrls == {<<>>, <<"t">>}

\* the || operator on strings: the empty string is falsy
Or(a, b) == IF a # <<>> THEN a ELSE b

ContentTypes == {<<>>, CT_JSON, CT_JSON_UPPER, CT_JSON_CHARSET, CT_WAV, CT_WAV_UPPER}

\* inbound requests: method, content-type header (possibly absent), body, and
\* whether reading the body stream fails
Requests ==
    {q \in [method : {"GET", "POST"}, hasContentType : BOOLEAN,
            contentTypeHeader : ContentTypes, body : Bodies,
            streamOk : BOOLEAN, streamErr : ErrorStrings \cup {<<>>}] :
        /\ ~q.hasContentType => q.contentTypeHeader = <<>>
        /\ q.streamOk <=> q.streamErr = <<>>}

NoRequest ==
    [method |-> "", hasContentType |-> FALSE, contentTypeHeader |-> <<>>,
     body |-> <<>>, streamOk |-> TRUE, streamErr |-> <<>>]

\* what an upstream does with a call: fetch rejects, or it resolves with a
\* status and a body whose read succeeds or rejects
NoUpstream ==
    [kind |-> "none", err |-> <<>>, status |-> 0, body |-> <<>>, readOk |-> TRUE]
UpstreamThrows == {[NoUpstream EXCEPT !.kind = "throw", !.err = e] : e \in ErrorStrings}
UpstreamResponses ==
    {[kind |-> "response", err |-> e, status |-> st, body |-> b, readOk |-> (e = <<>>)] :
        st \in UpstreamStatuses, b \in UpstreamBodies, e \in ErrorStrings \cup {<<>>}}

NoPrev == [set |-> FALSE, req |-> NoRequest, r |-> NoUpstream, res |-> <<>>]

\* variant: redirects count as success
okLoose(resp) == resp.status >= 200 /\ resp.status <= 399

\* Response.ok
ok(resp) == resp.status >= 200 /\ resp.status <= 299

(***************************************************************************)
(* Responses to the caller                                                 *)
(***************************************************************************)
\* res.status(s).json({ error })
Json(s, error) ==
    [status |-> s, contentType |-> "application/json", error |-> error,
     hasDetails |-> FALSE, details |-> <<>>, body |-> <<>>]

\* res.status(s).json({ error, details })
JsonDetails(s, error, details) ==
    [Json(s, error) EXCEPT !.hasDetails = TRUE, !.details = details]

\* res.setHeader('Content-Type', 'audio/wav'); res.status(200).send(bytes)
Audio(bytes) ==
    [status |-> 200, contentType |-> "audio/wav", error |-> "",
     hasDetails |-> FALSE, details |-> <<>>, body |-> bytes]

\* variant: the catch clause truncates like the RVC branches
InternalErrorShort(err) ==
    JsonDetails(500, "Internal server error", substring(err, RvcDetailsLen))

\* the catch clause of the handler
InternalError(err) ==
    JsonDetails(500, "Internal server error", substring(err, InternalDetailsLen))

(***************************************************************************)
(* Outbound calls                                                          *)
(***************************************************************************)
forwardUrl == stripTrailingSlash(RVC_SERVER_URL) \o SYNTHESIZE

\* fetch(`${RVC_SERVER_URL}/synthesize`, JSON { text, language })
RvcJsonCall(text, language) ==
    [dest |-> "rvc", url |-> forwardUrl, method |-> "POST",
     contentType |-> CT_JSON, authorization |-> <<>>, kind |-> "json",
     text |-> text, language |-> language, encoding |-> "",
     sampleRateHertz |-> 0, raw |-> <<>>]

\* fetch(GEMINI_TTS_URL, JSON { input: { text }, audio: {...} })
GeminiCall(text) ==
    [dest |-> "gemini", url |-> GEMINI_TTS_URL, method |-> "POST",
     contentType |-> CT_JSON, authorization |-> BEARER \o GEMINI_API_KEY,
     kind |-> "json", text |-> text, language |-> Undefined,
     encoding |-> "LINEAR16", sampleRateHertz |-> 24000, raw |-> <<>>]

\* variant: the lower-cased content type is forwarded
RvcRawCallLower(header, buffer) ==
    [dest |-> "rvc", url |-> forwardUrl, method |-> "POST",
     contentType |-> Or(toLowerCase(header), OCTET_STREAM), authorization |-> <<>>,
     kind |-> "raw", text |-> Undefined, language |-> Undefined,
     encoding |-> "", sampleRateHertz |-> 0, raw |-> buffer]

\* fetch(forwardUrl, raw body with the inbound content type)
RvcRawCall(header, buffer) ==
    [dest |-> "rvc", url |-> forwardUrl, method |-> "POST",
     contentType |-> Or(header, OCTET_STREAM), authorization |-> <<>>,
     kind |-> "raw", text |-> Undefined, language |-> Undefined,
     encoding |-> "", sampleRateHertz |-> 0, raw |-> buffer]

\* the error label and truncation length of each fetch site
errorLabel(b) ==
    CASE b = "rvc_json" -> "RVC synth failed"
      [] b = "gemini" -> "Gemini TTS failed"
      [] b = "rvc_raw" -> "RVC audio processing failed"

\* variant: one truncation length for every fetch site
detailsLenUniform(b) == GeminiDetailsLen

detailsLen(b) ==
    CASE b = "rvc_json" -> RvcDetailsLen
      [] b = "gemini" -> GeminiDetailsLen
      [] b = "rvc_raw" -> RvcDetailsLen

(***************************************************************************)
(* The handler                                                             *)
(***************************************************************************)
\* (req.headers['content-type'] || '').toLowerCase()
contentType(q) == toLowerCase(Or(q.contentTypeHeader, <<>>))

\* contentType.includes('application/json')
isJson(q) == includes(contentType(q), CT_JSON)

\* variant: the mode is not looked at
useClonedAnyMode(mode) == RVC_SERVER_URL # <<>>

\* mode === 'cloned' && RVC_SERVER_URL
useCloned(mode) == mode = Str("cloned") /\ RVC_SERVER_URL # <<>>

Init ==
    /\ \E u \in EnvRvcUrls : RVC_SERVER_URL = Or(u, <<>>)
    /\ \E k \in EnvApiKeys : GEMINI_API_KEY = Or(k, <<>>)
    /\ \E t \in EnvTtsUrls : GEMINI_TTS_URL = Or(t, DEFAULT_TTS_URL)
    /\ pc = "idle"
    /\ req = NoRequest
    /\ readCalled = FALSE
    /\ rawBuffer = <<>>
    /\ branch = "none"
    /\ calls = <<>>
    /\ r = NoUpstream
    /\ res = <<>>
    /\ loaded = config
    /\ prev = NoPrev

\* send one response and return from the handler
Respond(resp) ==
    /\ res' = Append(res, resp)
    /\ pc' = "done"

\* variant: the catch clause only logs
CatchSilent(err) ==
    /\ pc' = "done"
    /\ UNCHANGED res

\* the catch clause: respond 500 with the stringified error
Catch(err) == Respond(InternalError(err))

\* variant: the body read is started before the method is looked at
MethodGateReadsFirst(q) ==
    /\ pc = "idle"
    /\ req' = q
    /\ readCalled' = TRUE
    /\ IF q.method # "POST"
       THEN Respond(Json(405, "Only POST allowed"))
       ELSE pc' = "readRawRequest" /\ UNCHANGED res
    /\ UNCHANGED <<config, history, rawBuffer, branch, calls, r>>

\* a request arrives: the method gate, then the body read is started
MethodGate(q) ==
    /\ pc = "idle"
    /\ req' = q
    /\ IF q.method # "POST"
       THEN /\ Respond(Json(405, "Only POST allowed"))
            /\ UNCHANGED readCalled
       ELSE /\ pc' = "readRawRequest"
            /\ readCalled' = TRUE
            /\ UNCHANGED res
    /\ UNCHANGED <<config, history, rawBuffer, branch, calls, r>>

\* reading the inbound stream rejects
ReadThrows ==
    /\ pc = "readRawRequest"
    /\ ~req.streamOk
    /\ Catch(req.streamErr)
    /\ UNCHANGED <<config, history, req, readCalled, rawBuffer, branch, calls, r>>

\* the body is buffered and the content type contains application/json
JsonBranch ==
    /\ pc = "readRawRequest"
    /\ req.streamOk
    /\ isJson(req)
    /\ rawBuffer' = req.body
    /\ LET bodyText == Or(req.body, B_OBJ)
           body == JSONParse(bodyText)
           text == body.text
           language == Default(body.language, Str("en"))
           mode == Default(body.mode, Str("cloned"))
       IN  IF body.kind = "SyntaxError"
           THEN Catch(SyntaxErrorString) /\ UNCHANGED <<branch, calls>>
           ELSE IF body.kind = "null"
           THEN Catch(TypeErrorString) /\ UNCHANGED <<branch, calls>>
           ELSE IF ~Truthy(text)
           THEN /\ Respond(Json(400, "Missing text field in JSON body"))
                /\ UNCHANGED <<branch, calls>>
           ELSE IF useCloned(mode)
           THEN /\ calls' = Append(calls, RvcJsonCall(text, language))
                /\ branch' = "rvc_json"
                /\ pc' = "fetch"
                /\ UNCHANGED res
           ELSE IF GEMINI_API_KEY = <<>>
           THEN /\ Respond(Json(500, "No RVC_SERVER_URL or GEMINI_API_KEY configured"))
                /\ UNCHANGED <<branch, calls>>
           ELSE /\ calls' = Append(calls, GeminiCall(text))
                /\ branch' = "gemini"
                /\ pc' = "fetch"
                /\ UNCHANGED res
    /\ UNCHANGED <<config, history, req, readCalled, r>>

\* the body is buffered and the content type is anything else
RawBranch ==
    /\ pc = "readRawRequest"
    /\ req.streamOk
    /\ ~isJson(req)
    /\ rawBuffer' = req.body
    /\ IF RVC_SERVER_URL = <<>>
       THEN /\ Respond(Json(400, "This endpoint received audio, but RVC_SERVER_URL is not set. Set RVC_SERVER_URL to forward audio."))
            /\ UNCHANGED <<branch, calls>>
       ELSE /\ calls' = Append(calls, RvcRawCall(req.contentTypeHeader, req.body))
            /\ branch' = "rvc_raw"
            /\ pc' = "fetch"
            /\ UNCHANGED res
    /\ UNCHANGED <<config, history, req, readCalled, r>>

\* variant: a rejected fetch is tried once more
FetchThrowsRetry(u) ==
    /\ pc = "fetch"
    /\ u \in UpstreamThrows
    /\ r' = u
    /\ IF Len(calls) < 2
       THEN calls' = Append(calls, calls[1]) /\ UNCHANGED <<pc, res>>
       ELSE Catch(u.err) /\ UNCHANGED calls
    /\ UNCHANGED <<config, history, req, readCalled, rawBuffer, branch>>

\* the awaited fetch rejects (network failure)
FetchThrows(u) ==
    /\ pc = "fetch"
    /\ u \in UpstreamThrows
    /\ r' = u
    /\ Catch(u.err)
    /\ UNCHANGED <<config, history, req, readCalled, rawBuffer, branch, calls>>

\* the awaited fetch resolves; the handler starts reading the upstream body
FetchReturns(u) ==
    /\ pc = "fetch"
    /\ u \in UpstreamResponses
    /\ r' = u
    /\ pc' = IF ~ok(u) THEN "text" ELSE "arrayBuffer"
    /\ UNCHANGED <<config, history, req, readCalled, rawBuffer, branch, calls, res>>

\* r.text() or r.arrayBuffer() rejects
BodyReadThrows ==
    /\ pc \in {"text", "arrayBuffer"}
    /\ ~r.readOk
    /\ Catch(r.err)
    /\ UNCHANGED <<config, history, req, readCalled, rawBuffer, branch, calls, r>>

\* r.text() resolves after a non-2xx status
TextReturns ==
    /\ pc = "text"
    /\ r.readOk
    /\ Respond(JsonDetails(502, errorLabel(branch), substring(r.body, detailsLen(branch))))
    /\ UNCHANGED <<config, history, req, readCalled, rawBuffer, branch, calls, r>>

\* r.arrayBuffer() resolves after a 2xx status
ArrayBufferReturns ==
    /\ pc = "arrayBuffer"
    /\ r.readOk
    /\ Respond(Audio(r.body))
    /\ UNCHANGED <<config, history, req, readCalled, rawBuffer, branch, calls, r>>

\* variant: an upstream that failed is switched off for later invocations
ReturnDisable ==
    /\ pc = "done"
    /\ pc' = "idle"
    /\ req' = NoRequest
    /\ readCalled' = FALSE
    /\ rawBuffer' = <<>>
    /\ branch' = "none"
    /\ calls' = <<>>
    /\ r' = NoUpstream
    /\ res' = <<>>
    /\ RVC_SERVER_URL' = IF branch \in {"rvc_json", "rvc_raw"} /\ r.kind = "throw"
                         THEN <<>> ELSE RVC_SERVER_URL
    /\ UNCHANGED <<GEMINI_API_KEY, GEMINI_TTS_URL, history>>

\* the invocation is over; its locals are gone
Return ==
    /\ pc = "done"
    /\ pc' = "idle"
    /\ req' = NoRequest
    /\ readCalled' = FALSE
    /\ rawBuffer' = <<>>
    /\ branch' = "none"
    /\ calls' = <<>>
    /\ r' = NoUpstream
    /\ res' = <<>>
    /\ UNCHANGED <<config, history>>

Next ==
    \/ \E q \in Requests : MethodGate(q)
    \/ ReadThrows
    \/ JsonBranch
    \/ RawBranch
    \/ \E u \in UpstreamThrows : FetchThrows(u)
    \/ \E u \in UpstreamResponses : FetchReturns(u)
    \/ BodyReadThrows
    \/ TextReturns
    \/ ArrayBufferReturns
    \/ Return

Spec == Init /\ [][Next]_vars

(***************************************************************************)
(* Observation of repeated invocations                                     *)
(***************************************************************************)
\* the invocations that are remembered for a later comparison
Watched(q, u) ==
    /\ q.method = "POST"
    /\ q.streamOk
    /\ \/ q.contentTypeHeader = CT_JSON /\ q.body \in {B_HI, B_HI_NORMAL}
       \/ q.contentTypeHeader = CT_WAV /\ q.body = B_HI
    /\ \/ u.kind = "none"
       \/ u.kind = "throw" /\ u.err = Text(3, ShortLen)
       \/ /\ u.kind = "response" /\ u.readOk
          /\ u.status \in {200, 500} /\ u.body = Text(1, ShortLen)

\* remember the invocation that has just completed
Remember ==
    /\ pc = "done"
    /\ ~prev.set
    /\ Watched(req, r)
    /\ prev' = [set |-> TRUE, req |-> req, r |-> r, res |-> res]
    /\ UNCHANGED <<config, loaded, pc, req, readCalled, rawBuffer, branch, calls, r, res>>

NextRepeat == Next \/ Remember

SpecRepeat == Init /\ [][NextRepeat]_vars

(***************************************************************************)
(* Properties                                                              *)
(***************************************************************************)
\* the requests by what they are, independently of how the handler decides
JsonTypes == {CT_JSON, CT_JSON_UPPER, CT_JSON_CHARSET}
TruthyTextBodies == {B_HI, B_HI_NORMAL, B_HI_CLONED, B_HI_TE}
FalsyTextBodies == {<<>>, B_OBJ, B_EMPTYTEXT, B_TEXTNULL, B_TEXTZERO, B_TEXTFALSE}
MalformedBodies == {B_BAD, B_RIFF}
ClonedBodies == {B_HI, B_HI_CLONED}

Prefix(s, n) == IF Len(s) <= n THEN s ELSE SubSeq(s, 1, n)
Is2xx(st) == st \in 200..299

Read == req.method = "POST" /\ req.streamOk
JsonRequest == Read /\ req.contentTypeHeader \in JsonTypes
RawRequest == Read /\ req.contentTypeHeader \notin JsonTypes
Routed == pc \in {"fetch", "text", "arrayBuffer", "done"}
CloningConfigured == RVC_SERVER_URL # <<>>
TtsConfigured == GEMINI_API_KEY # <<>>
Cloned == req.body \in ClonedBodies /\ CloningConfigured

WrongMethod == pc = "done" /\ req.method # "POST"
MissingText == pc = "done" /\ JsonRequest /\ req.body \in FalsyTextBodies
NoProviderJson ==
    pc = "done" /\ JsonRequest /\ req.body \in TruthyTextBodies /\ ~Cloned /\ ~TtsConfigured
NoProviderRaw == pc = "done" /\ RawRequest /\ ~CloningConfigured

IsAudio(x) == x.status = 200 /\ x.contentType = "audio/wav" /\ x.error = ""
IsJsonError(x) ==
    x.status \in {400, 405, 500, 502} /\ x.contentType = "application/json" /\ x.error # ""
IsInternalError(x, e) ==
    x = [status |-> 500, contentType |-> "application/json",
         error |-> "Internal server error", hasDetails |-> TRUE,
         details |-> Prefix(e, 300), body |-> <<>>]
SynthesizeUrl == <<"h">> \o SYNTHESIZE

\* C1: an invocation that has run to completion has sent exactly one
\* response, which is 200 audio/wav or a JSON error with status 400, 405,
\* 500 or 502; no invocation ever sends two.
OneResponse ==
    /\ Len(res) <= 1
    /\ pc = "done" => Len(res) = 1 /\ (IsAudio(res[1]) \/ IsJsonError(res[1]))

OneResponseWitness == pc = "done" /\ r.kind = "throw" /\ Len(res) = 1

\* C2 as stated: every completed invocation has attempted exactly one
\* upstream call.
ExactlyOneCall == pc = "done" => Len(calls) = 1

\* C2 amended: at most one upstream call is attempted per invocation; an
\* invocation whose upstream call was answered or failed made exactly that
\* one call (no retry, no second upstream) and one that ended without an
\* upstream outcome made none.
AtMostOneCall ==
    /\ Len(calls) <= 1
    /\ r.kind # "none" => Len(calls) = 1
    /\ pc = "done" /\ r.kind = "none" => calls = <<>>

AtMostOneCallWitness ==
    pc = "done" /\ r.kind = "response" /\ ~Is2xx(r.status) /\ Len(calls) = 1

\* C3: for a POST JSON request with a truthy text the cloning server's
\* /synthesize is called iff the mode is "cloned" and the cloning URL is
\* configured; otherwise the TTS provider is called iff its key is
\* configured; otherwise nothing is called and the response is the 500
\* "No RVC_SERVER_URL or GEMINI_API_KEY configured".
DecisionTable ==
    (Routed /\ JsonRequest /\ req.body \in TruthyTextBodies) =>
        IF Cloned
        THEN /\ Len(calls) = 1
             /\ calls[1].dest = "rvc"
             /\ calls[1].url = SynthesizeUrl
             /\ calls[1].method = "POST"
        ELSE IF TtsConfigured
        THEN /\ Len(calls) = 1
             /\ calls[1].dest = "gemini"
             /\ calls[1].url = GEMINI_TTS_URL
        ELSE /\ calls = <<>>
             /\ res = <<Json(500, "No RVC_SERVER_URL or GEMINI_API_KEY configured")>>

DecisionTableWitness ==
    /\ pc = "fetch" /\ JsonRequest /\ req.body = B_HI_CLONED
    /\ ~CloningConfigured
    /\ calls[1].dest = "gemini"

\* C4 as stated: every client input error ends in a 4xx response with a
\* message and without an upstream call.
ClientErrorsAre4xx ==
    (WrongMethod \/ MissingText \/ NoProviderJson \/ NoProviderRaw) =>
        /\ Len(res) = 1
        /\ res[1].status \in 400..499
        /\ res[1].error # ""
        /\ calls = <<>>

\* C4 amended: a wrong method is answered 405, a missing text 400 and raw
\* input without a cloning URL 400, but a JSON request for which no provider
\* is configured is answered 500; each with its message and without an
\* upstream call.
ClientErrorStatuses ==
    /\ WrongMethod => res = <<Json(405, "Only POST allowed")>> /\ calls = <<>>
    /\ MissingText => res = <<Json(400, "Missing text field in JSON body")>> /\ calls = <<>>
    /\ NoProviderRaw =>
          /\ Len(res) = 1 /\ res[1].status = 400 /\ res[1].error # ""
          /\ calls = <<>>
    /\ NoProviderJson =>
          /\ res = <<Json(500, "No RVC_SERVER_URL or GEMINI_API_KEY configured")>>
          /\ calls = <<>>

ClientErrorStatusesWitness == NoProviderJson /\ Len(res) = 1 /\ res[1].status = 500

\* C5 as stated: every upstream failure, a non-2xx status or a thrown
\* outbound call, ends in a 502 response.
UpstreamFailureIs502 ==
    (pc = "done" /\ (r.kind = "throw" \/ (r.kind = "response" /\ ~Is2xx(r.status)))) =>
        Len(res) = 1 /\ res[1].status = 502

\* C5 amended: a non-2xx upstream status whose error text is read ends in a
\* 502 response; a thrown outbound call or upstream body read ends in the
\* 500 "Internal server error" response.
UpstreamFailureStatus ==
    pc = "done" =>
        /\ (r.kind = "response" /\ ~Is2xx(r.status) /\ r.readOk) =>
              Len(res) = 1 /\ res[1].status = 502
        /\ (r.kind = "throw" \/ (r.kind = "response" /\ ~r.readOk)) =>
              /\ Len(res) = 1 /\ res[1].status = 500
              /\ res[1].error = "Internal server error"

UpstreamFailureStatusWitness ==
    pc = "done" /\ r.kind = "throw" /\ Len(res) = 1 /\ res[1].status = 500

\* C6: every exception after the method gate (inbound body read, JSON
\* parse, null body, outbound call, upstream body read) ends in the 500
\* "Internal server error" response whose details are the first 300
\* characters of the stringified error; for a malformed or null JSON body
\* no upstream call is made.
ExceptionsAre500 ==
    pc = "done" =>
        /\ (req.method = "POST" /\ ~req.streamOk) =>
              res = <<[status |-> 500, contentType |-> "application/json",
                       error |-> "Internal server error", hasDetails |-> TRUE,
                       details |-> Prefix(req.streamErr, 300), body |-> <<>>]>>
        /\ (JsonRequest /\ req.body \in MalformedBodies) =>
              Len(res) = 1 /\ IsInternalError(res[1], SyntaxErrorString) /\ calls = <<>>
        /\ (JsonRequest /\ req.body = B_NULL) =>
              Len(res) = 1 /\ IsInternalError(res[1], TypeErrorString) /\ calls = <<>>
        /\ (r.kind = "throw" \/ (r.kind = "response" /\ ~r.readOk)) =>
              Len(res) = 1 /\ IsInternalError(res[1], r.err)

ExceptionsAre500Witness ==
    /\ pc = "done" /\ JsonRequest /\ req.body = B_BAD
    /\ Len(res) = 1 /\ res[1].status = 500 /\ calls = <<>>

\* C7 as stated: raw input never reaches the TTS provider; without a
\* cloning URL it is answered 400 without a call; with one, the single call
\* goes to /synthesize with the inbound body and the inbound content-type
\* header as received, application/octet-stream when the header is absent.
RawForwardAsReceived ==
    (Routed /\ RawRequest) =>
        /\ \A i \in 1..Len(calls) : calls[i].dest # "gemini"
        /\ ~CloningConfigured =>
              /\ calls = <<>>
              /\ res = <<Json(400, "This endpoint received audio, but RVC_SERVER_URL is not set. Set RVC_SERVER_URL to forward audio.")>>
        /\ CloningConfigured =>
              /\ Len(calls) = 1
              /\ calls[1].dest = "rvc"
              /\ calls[1].url = SynthesizeUrl
              /\ calls[1].raw = req.body
              /\ calls[1].contentType =
                    IF req.hasContentType THEN req.contentTypeHeader ELSE OCTET_STREAM

\* C7 amended: as stated, except that application/octet-stream is sent when
\* the content-type header is absent or empty.
RawForward ==
    (Routed /\ RawRequest) =>
        /\ \A i \in 1..Len(calls) : calls[i].dest # "gemini"
        /\ ~CloningConfigured =>
              /\ calls = <<>>
              /\ res = <<Json(400, "This endpoint received audio, but RVC_SERVER_URL is not set. Set RVC_SERVER_URL to forward audio.")>>
        /\ CloningConfigured =>
              /\ Len(calls) = 1
              /\ calls[1].dest = "rvc"
              /\ calls[1].url = SynthesizeUrl
              /\ calls[1].raw = req.body
              /\ calls[1].contentType =
                    IF req.hasContentType /\ req.contentTypeHeader # <<>>
                    THEN req.contentTypeHeader ELSE OCTET_STREAM

RawForwardWitness ==
    /\ pc = "fetch" /\ RawRequest
    /\ req.contentTypeHeader = CT_WAV_UPPER /\ req.body = B_RIFF
    /\ calls[1].contentType = CT_WAV_UPPER /\ calls[1].raw = B_RIFF

\* C8: an upstream answer whose body is read is relayed: a 2xx answer as
\* 200 audio/wav with exactly the upstream bytes, any other as 502 with the
\* label of the call site and the upstream text cut to 200 characters for
\* the cloning server and 300 for the TTS provider, and without audio.
Relay ==
    (pc = "done" /\ r.kind = "response" /\ r.readOk) =>
        /\ Len(calls) = 1
        /\ IF Is2xx(r.status)
           THEN res = <<[status |-> 200, contentType |-> "audio/wav", error |-> "",
                         hasDetails |-> FALSE, details |-> <<>>, body |-> r.body]>>
           ELSE res = <<[status |-> 502, contentType |-> "application/json",
                         error |-> IF calls[1].dest = "gemini" THEN "Gemini TTS failed"
                                   ELSE IF calls[1].kind = "json" THEN "RVC synth failed"
                                   ELSE "RVC audio processing failed",
                         hasDetails |-> TRUE,
                         details |-> Prefix(r.body, IF calls[1].dest = "rvc" THEN 200 ELSE 300),
                         body |-> <<>>]>>

RelayWitness ==
    /\ pc = "done" /\ r.kind = "response" /\ r.readOk /\ ~Is2xx(r.status)
    /\ calls[1].dest = "rvc" /\ Len(r.body) > 200
    /\ Len(res[1].details) = 200

\* C9: a request that is not a POST is answered 405 "Only POST allowed"
\* without its body being read, and a POST JSON request with a falsy text is
\* answered 400 "Missing text field in JSON body"; neither makes an upstream
\* call, whatever the mode and the configuration.
EarlyRejection ==
    /\ WrongMethod =>
          /\ res = <<Json(405, "Only POST allowed")>>
          /\ ~readCalled /\ calls = <<>> /\ r.kind = "none"
    /\ MissingText =>
          /\ res = <<Json(400, "Missing text field in JSON body")>>
          /\ calls = <<>> /\ r.kind = "none"

EarlyRejectionWitness ==
    /\ MissingText /\ ~CloningConfigured /\ ~TtsConfigured
    /\ Len(res) = 1 /\ res[1].status = 400

====
